---- MODULE Spec2Model ----
(***************************************************************************)
(* Model of cmd/student-manager/main.go: the /login, /ping, /top and       *)
(* /count handlers of the student-manager server, run by several server    *)
(* processes that share one Redis store.  Every Redis command is one       *)
(* atomic step; the steps of different requests interleave, except where   *)
(* the process-wide mutex of handlePing serialises them.                   *)
(***************************************************************************)
EXTENDS Integers, Sequences, FiniteSets, TLC

\* ------------------------------------------------------------------ constants
RedisExpirationTime == 300
PingRateLimit == 60
TopPingCount == 10
PingWorkSeconds == 3
MaxInt32 == 2147483647

StatusOK == 200
StatusUnauthorized == 401
StatusTooManyRequests == 429
StatusInternalServerError == 500

\* ------------------------------------------------------------------ bounds
StartEpoch == 1000
MaxElapsed == 75
MaxTokens == 2
MaxElapsedFull == 30
MaxElapsedProcs == 60
MaxCalls == 8
LoginWindow == 0
MaxCount == 2
MaxElapsedSession == 450
LoginWindowSession == 150
NumMembers == 11
FreeMembers == 7
MaxCallsFull == 2
MaxCallsLock == 2

\* the value of the key "hyperloglog": Redis keeps a HyperLogLog as a string,
\* which starts with these bytes (one name here, whatever was added to it)
HllBytes == "HYLL"
\* usernames, in the (byte) order Redis gives to members of equal score
Names == <<HllBytes, "alice", "bob", "carol", "dave", "erin", "frank", "grace",
           "heidi", "ivan", "judy", "mallory", "nina", "oscar">>
Rank(m) == CHOOSE i \in 1..Len(Names) : Names[i] = m
\* the users that log in, the usernames handlePing may work for, and the
\* members the leaderboard may hold
Users == {"alice", "bob"}
Callers == Users \cup {HllBytes}
Members == {Names[i] : i \in 1..NumMembers}
\* the scores of a leaderboard that /top is asked for
ScoreValues == {1, 2}
\* the users that log in where store commands may fail
FullUsers == {"alice"}
Tokens == 1..MaxTokens
\* the request handlers (goroutines), and the server process each runs in
WorkerProc == <<1, 1, 2>>
Workers == DOMAIN WorkerProc
Procs == {WorkerProc[w] : w \in Workers}
SerialWorkers == {1}
ProcWorkers == {1, 3}
LockWorkers == {1, 2}
\* the clock advances by one of these numbers of seconds
TickSteps == {10, 55}
FullSteps == {30}
SessionSteps == {150}
\* the calls of the scenario "alice calls at t=0, t=10, t=65", after StartEpoch
ScenarioTimes == <<0, 10, 65>>

\* a request without the sessionID cookie, and one whose cookie is ""
NoCookie == 0
EmptyCookie == 0 - 1
Cookies == Tokens \cup {NoCookie, EmptyCookie}
\* a request whose cookie is the name of the HyperLogLog key, "hyperloglog"
HllCookie == 0 - 2

\* a key or hash field that does not exist
NoField == 0 - 1
NoSession == [user |-> "", expireAt |-> 0]
EmptyPingInfo == [blockTime |-> NoField, lastPingTime |-> NoField]
PingFields == {"blockTime", "lastPingTime"}

VARIABLES
  clock,         \* time.Now().Unix()
  sessions,      \* Redis strings: sessionID -> username, with its expiry
  pingInfo,      \* Redis hashes "ping-"+username: blockTime, lastPingTime
  topPings,      \* Redis sorted set top_pings: member -> score
  hyperloglog,   \* Redis HyperLogLog, as the exact set of members added
  mu,            \* the mutex of each process: 0 or the worker holding it
  pc,            \* where each request handler is
  cookie,        \* the sessionID cookie of the request
  username,      \* handlePing's username
  rdInfo,        \* canMakePing's pingInfo (the HGetAll reply)
  hgetErr,       \* the error of HGetAll that canMakePing drops
  currPingTime,  \* canMakePing's time.Now().Unix()
  pending,       \* setPingInfo: the fields of pingRecord not yet written
  newInfo,       \* setPingInfo's pingRecord
  totalPing,     \* increaseCounter's totalPing
  zscoreErr,     \* the error of ZScore that increaseCounter drops
  sleepUntil,    \* the end of handlePing's time.Sleep
  status,        \* the HTTP status of the last response of each handler
  topUsers,      \* the last response of handleTop: its status and topUsers
  count,         \* the last response of handleCount: its status and count
  allowedCalls,  \* per user: how many times canMakePing returned true
  callCount,     \* per user: how many times canMakePing returned (up to MaxCount)
  lastAllowedAt, \* per user: currPingTime of the last canMakePing that returned true
  prevAllowedAt, \* per user: currPingTime of the one before it
  scenario       \* per user: the results of its canMakePing calls so far, while
                 \* they are the calls of ScenarioTimes

store == <<sessions, pingInfo, topPings, hyperloglog>>
locals == <<cookie, username, rdInfo, hgetErr, currPingTime, pending, newInfo,
            totalPing, zscoreErr, sleepUntil>>
ghost == <<allowedCalls, callCount, lastAllowedAt, prevAllowedAt, scenario>>
replies == <<topUsers, count>>
vars == <<clock, store, mu, pc, locals, status, replies, ghost>>

\* ------------------------------------------------------------------ helpers
Max(a, b) == IF a >= b THEN a ELSE b

\* strconv.ParseInt(s, 10, 32) with its error dropped: 0 for "" (a missing
\* field), the nearest int32 for a number out of range
ParseInt32(v) ==
  IF v = NoField THEN 0
  ELSE IF v > MaxInt32 THEN MaxInt32
  ELSE IF v < 0 - MaxInt32 - 1 THEN 0 - MaxInt32 - 1
  ELSE v

\* len(pingInfo) == 0
IsEmptyInfo(info) == info.blockTime = NoField /\ info.lastPingTime = NoField

\* (mutant) the call is let through only after a whole window
ElapsedExceedsWindow(info, now) ==
  now - ParseInt32(info.lastPingTime) > PingRateLimit

\* (mutant) the call is let through as soon as the block time has passed
ElapsedReachesBlock(info, now) ==
  now - ParseInt32(info.lastPingTime) >= ParseInt32(info.blockTime)

\* (mutant) the block time of the hash is not looked at
ElapsedPositive(info, now) ==
  now - ParseInt32(info.lastPingTime) > 0

\* the test of canMakePing on an existing pingInfo
ElapsedExceedsBlock(info, now) ==
  now - ParseInt32(info.lastPingTime) > ParseInt32(info.blockTime)

\* (mutant) the two times swapped
NewBlockTimeSwapped(info, now) ==
  Max(0, now + PingRateLimit - ParseInt32(info.lastPingTime))

\* (mutant) a call let through leaves no block
NewBlockTimeZero(info, now) == 0

\* (mutant) the block time not kept from going below 0
NewBlockTimeUnclamped(info, now) ==
  ParseInt32(info.lastPingTime) + PingRateLimit - now

\* newBlockTime of canMakePing
NewBlockTime(info, now) ==
  Max(0, ParseInt32(info.lastPingTime) + PingRateLimit - now)

\* whether canMakePing goes on to setPingInfo (and then returns true)
CanMakePing(info, now) == IsEmptyInfo(info) \/ ElapsedExceedsBlock(info, now)

\* (mutant) a first call starts a whole block
PingRecordBlocking(info, now) ==
  IF IsEmptyInfo(info)
  THEN [blockTime |-> PingRateLimit, lastPingTime |-> now]
  ELSE [blockTime |-> NewBlockTime(info, now), lastPingTime |-> now]

\* the pingRecord canMakePing hands to setPingInfo
PingRecord(info, now) ==
  IF IsEmptyInfo(info)
  THEN [blockTime |-> 0, lastPingTime |-> now]
  ELSE [blockTime |-> NewBlockTime(info, now), lastPingTime |-> now]

\* redisClient.Get(sessionID) for the key of a session: the username, or ""
\* for redis.Nil (no key, or expired)
SessionUser(tok, now) ==
  IF tok \in Tokens /\ sessions[tok].user # "" /\ now < sessions[tok].expireAt
  THEN sessions[tok].user
  ELSE ""

\* redisClient.Get(sessionID).Result(): sessions and the HyperLogLog are keys
\* of the one Redis database, and both are strings to GET; the key
\* "hyperloglog" exists once PFAdd has run
RedisGet(key, now) ==
  IF key = HllCookie
  THEN IF hyperloglog # {} THEN HllBytes ELSE ""
  ELSE SessionUser(key, now)

Count(n) == IF n < MaxCount THEN n + 1 ELSE n

AllowedTotal == allowedCalls["alice"] + allowedCalls["bob"] + allowedCalls[HllBytes]

\* the scenario after one more canMakePing, called at time t with result ok
Log(sc, t, ok) ==
  IF sc.on /\ Len(sc.res) < Len(ScenarioTimes)
           /\ t = StartEpoch + ScenarioTimes[Len(sc.res) + 1]
  THEN [on |-> TRUE, res |-> Append(sc.res, ok)]
  ELSE [on |-> FALSE, res |-> <<>>]

\* ------------------------------------------------------------------ initial state
Init ==
  /\ clock = StartEpoch
  /\ sessions = [t \in Tokens |-> NoSession]
  /\ pingInfo = [u \in Callers |-> EmptyPingInfo]
  /\ topPings = [m \in Members |-> NoField]
  /\ hyperloglog = {}
  /\ mu = [p \in Procs |-> 0]
  /\ pc = [w \in Workers |-> "idle"]
  /\ cookie = [w \in Workers |-> NoCookie]
  /\ username = [w \in Workers |-> ""]
  /\ rdInfo = [w \in Workers |-> EmptyPingInfo]
  /\ hgetErr = [w \in Workers |-> FALSE]
  /\ currPingTime = [w \in Workers |-> 0]
  /\ pending = [w \in Workers |-> {}]
  /\ newInfo = [w \in Workers |-> EmptyPingInfo]
  /\ totalPing = [w \in Workers |-> 0]
  /\ zscoreErr = [w \in Workers |-> FALSE]
  /\ sleepUntil = [w \in Workers |-> 0]
  /\ status = [w \in Workers |-> 0]
  /\ topUsers = [status |-> 0, users |-> <<>>]
  /\ count = [status |-> 0, count |-> 0]
  /\ allowedCalls = [u \in Callers |-> 0]
  /\ callCount = [u \in Callers |-> 0]
  /\ lastAllowedAt = [u \in Callers |-> NoField]
  /\ prevAllowedAt = [u \in Callers |-> NoField]
  /\ scenario = [u \in Callers |-> [on |-> TRUE, res |-> <<>>]]

\* ------------------------------------------------------------------ actions
Tick(d, horizon) ==
  /\ clock + d <= StartEpoch + horizon
  /\ clock' = clock + d
  /\ UNCHANGED <<store, mu, pc, locals, status, replies, ghost>>

\* (mutant) mu.Unlock is not deferred: a panic leaves the mutex locked
RespondNoDefer(w, code) ==
  /\ status' = [status EXCEPT ![w] = code]
  /\ mu' = IF code = StatusInternalServerError THEN mu
           ELSE [mu EXCEPT ![WorkerProc[w]] = 0]
  /\ pc' = [pc EXCEPT ![w] = "idle"]
  /\ cookie' = [cookie EXCEPT ![w] = NoCookie]
  /\ username' = [username EXCEPT ![w] = ""]
  /\ rdInfo' = [rdInfo EXCEPT ![w] = EmptyPingInfo]
  /\ hgetErr' = [hgetErr EXCEPT ![w] = FALSE]
  /\ currPingTime' = [currPingTime EXCEPT ![w] = 0]
  /\ pending' = [pending EXCEPT ![w] = {}]
  /\ newInfo' = [newInfo EXCEPT ![w] = EmptyPingInfo]
  /\ totalPing' = [totalPing EXCEPT ![w] = 0]
  /\ zscoreErr' = [zscoreErr EXCEPT ![w] = FALSE]
  /\ sleepUntil' = [sleepUntil EXCEPT ![w] = 0]

\* the handler returns (or panics into gin's Recovery): the response is
\* written, the deferred mu.Unlock runs, the locals are gone
Respond(w, code) ==
  /\ status' = [status EXCEPT ![w] = code]
  /\ mu' = [mu EXCEPT ![WorkerProc[w]] = 0]
  /\ pc' = [pc EXCEPT ![w] = "idle"]
  /\ cookie' = [cookie EXCEPT ![w] = NoCookie]
  /\ username' = [username EXCEPT ![w] = ""]
  /\ rdInfo' = [rdInfo EXCEPT ![w] = EmptyPingInfo]
  /\ hgetErr' = [hgetErr EXCEPT ![w] = FALSE]
  /\ currPingTime' = [currPingTime EXCEPT ![w] = 0]
  /\ pending' = [pending EXCEPT ![w] = {}]
  /\ newInfo' = [newInfo EXCEPT ![w] = EmptyPingInfo]
  /\ totalPing' = [totalPing EXCEPT ![w] = 0]
  /\ zscoreErr' = [zscoreErr EXCEPT ![w] = FALSE]
  /\ sleepUntil' = [sleepUntil EXCEPT ![w] = 0]

\* handleLogin: valid says whether the User table has the username and password
handleLogin(u, valid, ok, window) ==
  /\ clock <= StartEpoch + window
  /\ \E tok \in Tokens :
       /\ sessions[tok] = NoSession
       /\ \A t \in Tokens : t < tok => sessions[t] # NoSession
       /\ sessions' = IF valid /\ ok
                      THEN [sessions EXCEPT ![tok] =
                              [user |-> u, expireAt |-> clock + RedisExpirationTime]]
                      ELSE sessions
  /\ UNCHANGED <<clock, pingInfo, topPings, hyperloglog, mu, pc, locals, status,
                 replies, ghost>>

\* a GET /ping arrives with cookie c (no more of them once canMakePing has
\* returned true budget times)
PingRequest(w, c, budget) ==
  /\ pc[w] = "idle"
  /\ AllowedTotal < budget
  /\ pc' = [pc EXCEPT ![w] = "lock"]
  /\ cookie' = [cookie EXCEPT ![w] = c]
  /\ status' = [status EXCEPT ![w] = 0]
  /\ UNCHANGED <<clock, store, mu, username, rdInfo, hgetErr, currPingTime, pending,
                 newInfo, totalPing, zscoreErr, sleepUntil, replies, ghost>>

\* (mutant) the handler does not wait for the mutex
LockNoWait(w) ==
  /\ pc[w] = "lock"
  /\ mu' = [mu EXCEPT ![WorkerProc[w]] = w]
  /\ pc' = [pc EXCEPT ![w] = "session"]
  /\ UNCHANGED <<clock, store, locals, status, replies, ghost>>

\* mu.Lock()
Lock(w) ==
  /\ pc[w] = "lock"
  /\ mu[WorkerProc[w]] = 0
  /\ mu' = [mu EXCEPT ![WorkerProc[w]] = w]
  /\ pc' = [pc EXCEPT ![w] = "session"]
  /\ UNCHANGED <<clock, store, locals, status, replies, ghost>>

\* (mutant) a session that is used lives on
GetSessionRenewing(w, ok) ==
  LET name == IF cookie[w] = NoCookie \/ ~ok THEN "" ELSE RedisGet(cookie[w], clock)
  IN /\ pc[w] = "session"
     /\ IF name = ""
        THEN /\ Respond(w, StatusUnauthorized)
             /\ UNCHANGED sessions
        ELSE /\ username' = [username EXCEPT ![w] = name]
             /\ pc' = [pc EXCEPT ![w] = "hgetall"]
             /\ sessions' = [sessions EXCEPT ![cookie[w]].expireAt =
                                               clock + RedisExpirationTime]
             /\ UNCHANGED <<mu, status, cookie, rdInfo, hgetErr, currPingTime, pending,
                            newInfo, totalPing, zscoreErr, sleepUntil>>
     /\ UNCHANGED <<clock, pingInfo, topPings, hyperloglog, replies, ghost>>

\* c.Cookie, redisClient.Get and the three Unauthorized returns of handlePing
GetSession(w, ok) ==
  LET name == IF cookie[w] = NoCookie \/ ~ok THEN "" ELSE RedisGet(cookie[w], clock)
  IN /\ pc[w] = "session"
     /\ IF name = ""
        THEN Respond(w, StatusUnauthorized)
        ELSE /\ username' = [username EXCEPT ![w] = name]
             /\ pc' = [pc EXCEPT ![w] = "hgetall"]
             /\ UNCHANGED <<mu, status, cookie, rdInfo, hgetErr, currPingTime, pending,
                            newInfo, totalPing, zscoreErr, sleepUntil>>
     /\ UNCHANGED <<clock, store, replies, ghost>>

\* (mutant) a blocked call restarts the block of its user
HGetAllTouching(w, ok) ==
  LET u == username[w]
      info == IF ok THEN pingInfo[u] ELSE EmptyPingInfo
  IN /\ pc[w] = "hgetall"
     /\ IF CanMakePing(info, clock)
        THEN /\ rdInfo' = [rdInfo EXCEPT ![w] = info]
             /\ hgetErr' = [hgetErr EXCEPT ![w] = ~ok]
             /\ currPingTime' = [currPingTime EXCEPT ![w] = clock]
             /\ newInfo' = [newInfo EXCEPT ![w] = PingRecord(info, clock)]
             /\ pending' = [pending EXCEPT ![w] = PingFields]
             /\ pc' = [pc EXCEPT ![w] = "hset"]
             /\ UNCHANGED <<mu, status, cookie, username, totalPing, zscoreErr,
                            sleepUntil, ghost, pingInfo>>
        ELSE /\ Respond(w, StatusTooManyRequests)
             /\ pingInfo' = [pingInfo EXCEPT ![u].lastPingTime = clock]
             /\ scenario' = [scenario EXCEPT ![u] = Log(@, clock, FALSE)]
             /\ callCount' = [callCount EXCEPT ![u] = Count(@)]
             /\ UNCHANGED <<allowedCalls, lastAllowedAt, prevAllowedAt>>
     /\ UNCHANGED <<clock, sessions, topPings, hyperloglog, replies>>

\* canMakePing up to its decision: HGetAll, time.Now, the test
HGetAll(w, ok) ==
  LET u == username[w]
      info == IF ok THEN pingInfo[u] ELSE EmptyPingInfo
  IN /\ pc[w] = "hgetall"
     /\ IF CanMakePing(info, clock)
        THEN /\ rdInfo' = [rdInfo EXCEPT ![w] = info]
             /\ hgetErr' = [hgetErr EXCEPT ![w] = ~ok]
             /\ currPingTime' = [currPingTime EXCEPT ![w] = clock]
             /\ newInfo' = [newInfo EXCEPT ![w] = PingRecord(info, clock)]
             /\ pending' = [pending EXCEPT ![w] = PingFields]
             /\ pc' = [pc EXCEPT ![w] = "hset"]
             /\ UNCHANGED <<mu, status, cookie, username, totalPing, zscoreErr,
                            sleepUntil, ghost>>
        ELSE /\ Respond(w, StatusTooManyRequests)
             /\ scenario' = [scenario EXCEPT ![u] = Log(@, clock, FALSE)]
             /\ callCount' = [callCount EXCEPT ![u] = Count(@)]
             /\ UNCHANGED <<allowedCalls, lastAllowedAt, prevAllowedAt>>
     /\ UNCHANGED <<clock, store, replies>>

\* setPingInfo: one HSet of its loop over pingRecord (a Go map: any order);
\* after the last one canMakePing returns true
HSet(w, f, ok) ==
  LET u == username[w]
  IN /\ pc[w] = "hset"
     /\ f \in pending[w]
     /\ IF ~ok
        THEN /\ Respond(w, StatusInternalServerError)
             /\ UNCHANGED <<pingInfo, ghost>>
        ELSE /\ pingInfo' = [pingInfo EXCEPT ![u][f] = newInfo[w][f]]
             /\ pending' = [pending EXCEPT ![w] = @ \ {f}]
             /\ IF pending[w] = {f}
                THEN /\ pc' = [pc EXCEPT ![w] = "zscore"]
                     /\ allowedCalls' = [allowedCalls EXCEPT ![u] = @ + 1]
                     /\ callCount' = [callCount EXCEPT ![u] = Count(@)]
                     /\ lastAllowedAt' = [lastAllowedAt EXCEPT ![u] = currPingTime[w]]
                     /\ prevAllowedAt' = [prevAllowedAt EXCEPT ![u] = lastAllowedAt[u]]
                     /\ scenario' = [scenario EXCEPT ![u] = Log(@, currPingTime[w], TRUE)]
                ELSE UNCHANGED <<pc, ghost>>
             /\ UNCHANGED <<mu, status, cookie, username, rdInfo, hgetErr, currPingTime,
                            newInfo, totalPing, zscoreErr, sleepUntil>>
     /\ UNCHANGED <<clock, sessions, topPings, hyperloglog, replies>>

\* (mutant) the score read is lost
ZScoreZero(u, ok) == 0

\* redisClient.ZScore(top_pings, username).Result(): 0 with redis.Nil for a
\* member not there, 0 with the error when the command fails
ZScoreResult(u, ok) == IF ok /\ topPings[u] # NoField THEN topPings[u] ELSE 0

\* increaseCounter: ZScore, its error dropped
ZScore(w, ok) ==
  LET u == username[w]
  IN /\ pc[w] = "zscore"
     /\ totalPing' = [totalPing EXCEPT ![w] = ZScoreResult(u, ok)]
     /\ zscoreErr' = [zscoreErr EXCEPT ![w] = ~ok]
     /\ pc' = [pc EXCEPT ![w] = "zadd"]
     /\ UNCHANGED <<clock, store, mu, status, cookie, username, rdInfo, hgetErr,
                    currPingTime, pending, newInfo, sleepUntil, replies, ghost>>

\* increaseCounter: ZAdd of totalPing + 1
ZAdd(w, ok) ==
  LET u == username[w]
  IN /\ pc[w] = "zadd"
     /\ IF ~ok
        THEN /\ Respond(w, StatusInternalServerError)
             /\ UNCHANGED topPings
        ELSE /\ topPings' = [topPings EXCEPT ![u] = totalPing[w] + 1]
             /\ pc' = [pc EXCEPT ![w] = "pfadd"]
             /\ UNCHANGED <<mu, status, locals>>
     /\ UNCHANGED <<clock, sessions, pingInfo, hyperloglog, replies, ghost>>

\* (mutant) the HyperLogLog is set to the member, not added to
PFAddReplacing(w, ok) ==
  LET u == username[w]
  IN /\ pc[w] = "pfadd"
     /\ IF ~ok
        THEN /\ Respond(w, StatusInternalServerError)
             /\ UNCHANGED hyperloglog
        ELSE /\ hyperloglog' = {u}
             /\ pc' = [pc EXCEPT ![w] = "sleep"]
             /\ sleepUntil' = [sleepUntil EXCEPT ![w] = clock + PingWorkSeconds]
             /\ UNCHANGED <<mu, status, cookie, username, rdInfo, hgetErr, currPingTime,
                            pending, newInfo, totalPing, zscoreErr>>
     /\ UNCHANGED <<clock, sessions, pingInfo, topPings, replies, ghost>>

\* increaseCounter: PFAdd; then handlePing starts its time.Sleep
PFAdd(w, ok) ==
  LET u == username[w]
  IN /\ pc[w] = "pfadd"
     /\ IF ~ok
        THEN /\ Respond(w, StatusInternalServerError)
             /\ UNCHANGED hyperloglog
        ELSE /\ hyperloglog' = hyperloglog \cup {u}
             /\ pc' = [pc EXCEPT ![w] = "sleep"]
             /\ sleepUntil' = [sleepUntil EXCEPT ![w] = clock + PingWorkSeconds]
             /\ UNCHANGED <<mu, status, cookie, username, rdInfo, hgetErr, currPingTime,
                            pending, newInfo, totalPing, zscoreErr>>
     /\ UNCHANGED <<clock, sessions, pingInfo, topPings, replies, ghost>>

\* time passes until the time.Sleep of handler w is over
SleepTick(w) ==
  /\ pc[w] = "sleep"
  /\ clock < sleepUntil[w]
  /\ clock' = sleepUntil[w]
  /\ UNCHANGED <<store, mu, pc, locals, status, replies, ghost>>

\* the sleep is over: "Ping succeeded."
PingDone(w) ==
  /\ pc[w] = "sleep"
  /\ clock >= sleepUntil[w]
  /\ Respond(w, StatusOK)
  /\ UNCHANGED <<clock, store, replies, ghost>>

\* redisClient.ZRevRangeWithScores(top_pings, start, stop): the members from
\* the highest score down (of equal scores, the greater name first), those at
\* the 0-based places start..stop
ZRevRangeWithScores(start, stop) ==
  LET present == {m \in Members : topPings[m] # NoField}
      above(m) == {n \in present : \/ topPings[n] > topPings[m]
                                    \/ (topPings[n] = topPings[m] /\ Rank(n) > Rank(m))}
      last == IF stop + 1 < Cardinality(present) THEN stop + 1 ELSE Cardinality(present)
  IN [i \in 1..(last - start) |->
        LET m == CHOOSE m \in present : Cardinality(above(m)) = start + i - 1
        IN [Member |-> m, Score |-> topPings[m]]]

\* (mutant) one entry too many
handleTopOneMore(ok) ==
  /\ topUsers' = IF ok
                 THEN [status |-> StatusOK,
                       users |-> ZRevRangeWithScores(0, TopPingCount)]
                 ELSE [status |-> StatusInternalServerError, users |-> <<>>]
  /\ UNCHANGED <<clock, store, mu, pc, locals, status, count, ghost>>

\* handleTop
handleTop(ok) ==
  /\ topUsers' = IF ok
                 THEN [status |-> StatusOK,
                       users |-> ZRevRangeWithScores(0, TopPingCount - 1)]
                 ELSE [status |-> StatusInternalServerError, users |-> <<>>]
  /\ UNCHANGED <<clock, store, mu, pc, locals, status, count, ghost>>

\* handleCount: PFCount, here the exact number of members added; it panics
\* (gin answers 500) when PFCount fails
handleCount(ok) ==
  /\ count' = IF ok
              THEN [status |-> StatusOK, count |-> Cardinality(hyperloglog)]
              ELSE [status |-> StatusInternalServerError, count |-> 0]
  /\ UNCHANGED <<clock, store, mu, pc, locals, status, topUsers, ghost>>

\* ------------------------------------------------------------------ specifications
\* one step of handlePing in handler w, after the request has arrived; oks: the
\* outcomes of its store command (TRUE: it succeeds)
PingStep(w, oks) ==
  \/ Lock(w)
  \/ \E ok \in oks : GetSession(w, ok)
  \/ \E ok \in oks : HGetAll(w, ok)
  \/ \E f \in PingFields, ok \in oks : HSet(w, f, ok)
  \/ \E ok \in oks : ZScore(w, ok)
  \/ \E ok \in oks : ZAdd(w, ok)
  \/ \E ok \in oks : PFAdd(w, ok)
  \/ PingDone(w)

\* two server processes on one store, any store command may fail
Next ==
  \/ \E d \in FullSteps : Tick(d, MaxElapsedFull)
  \/ \E u \in FullUsers, valid \in BOOLEAN, ok \in BOOLEAN :
       handleLogin(u, valid, ok, LoginWindow)
  \/ \E w \in ProcWorkers, c \in Cookies : PingRequest(w, c, MaxCallsFull)
  \/ \E w \in ProcWorkers : PingStep(w, BOOLEAN)

Spec == Init /\ [][Next]_vars

\* one server process handling one request at a time, no failing store command
NextSerial ==
  \/ \E d \in TickSteps : Tick(d, MaxElapsed)
  \/ \E u \in Users : handleLogin(u, TRUE, TRUE, LoginWindow)
  \/ \E w \in SerialWorkers, c \in Cookies : PingRequest(w, c, MaxCalls)
  \/ \E w \in SerialWorkers : PingStep(w, {TRUE})

SpecSerial == Init /\ [][NextSerial]_vars

\* the user of the session of cookie c, "" if it has none
CookieUser(c) == IF c \in Tokens THEN sessions[c].user ELSE ""

\* a request with cookie c to handler w overlaps no request of the same user
NoOverlap(w, c) ==
  \A w2 \in Workers \ {w} :
    (pc[w2] # "idle" /\ c \in Tokens /\ cookie[w2] \in Tokens)
      => (CookieUser(c) # "" /\ CookieUser(cookie[w2]) # ""
                            /\ CookieUser(c) # CookieUser(cookie[w2]))

\* two server processes on one store, no failing store command, no two
\* requests of one user at the same time
NextNoOverlap ==
  \/ \E d \in FullSteps : Tick(d, MaxElapsedProcs)
  \/ \E u \in Users : handleLogin(u, TRUE, TRUE, LoginWindow)
  \/ \E w \in ProcWorkers, c \in Cookies :
       NoOverlap(w, c) /\ PingRequest(w, c, MaxCalls)
  \/ \E w \in ProcWorkers : PingStep(w, {TRUE})

SpecNoOverlap == Init /\ [][NextNoOverlap]_vars

\* one server process, logins at any time, sessions that expire, cookies that
\* name any string key of the store, any store command may fail
NextSession ==
  \/ \E d \in SessionSteps : Tick(d, MaxElapsedSession)
  \/ \E u \in FullUsers, valid \in BOOLEAN, ok \in BOOLEAN :
       handleLogin(u, valid, ok, LoginWindowSession)
  \/ \E w \in SerialWorkers, c \in Cookies \cup {HllCookie} :
       PingRequest(w, c, MaxCallsFull)
  \/ \E w \in SerialWorkers : PingStep(w, BOOLEAN)

SpecSession == Init /\ [][NextSession]_vars

\* the requests of SpecNoOverlap, and /count
NextCount ==
  \/ NextNoOverlap
  \/ handleCount(TRUE)

SpecCount == Init /\ [][NextCount]_vars

\* one server process handling two requests at a time, any store command may
\* fail; time passes while a handler sleeps
NextLock ==
  \/ \E w \in LockWorkers : SleepTick(w)
  \/ \E u \in FullUsers : handleLogin(u, TRUE, TRUE, LoginWindow)
  \/ \E w \in LockWorkers, c \in Cookies : PingRequest(w, c, MaxCallsLock)
  \/ \E w \in LockWorkers : PingStep(w, BOOLEAN)

SpecLock == Init /\ [][NextLock]_vars

\* ... where every handler goes on running, time.Sleep ends, and a handler
\* waiting in mu.Lock gets the mutex when it is freed again and again (the
\* mutex of Go hands over to a starving waiter)
Fairness ==
  \A w \in LockWorkers :
    /\ WF_vars(PingStep(w, BOOLEAN))
    /\ WF_vars(SleepTick(w))
    /\ SF_vars(Lock(w))

SpecFair == SpecLock /\ Fairness

\* /top and /count asked of a leaderboard: each of the first FreeMembers
\* members with no score or one of ScoreValues, as after that many allowed
\* calls, and so the other members, these all alike
InitTop ==
  /\ clock = StartEpoch
  /\ sessions = [t \in Tokens |-> NoSession]
  /\ \E free \in [{m \in Members : Rank(m) <= FreeMembers} -> {NoField} \cup ScoreValues],
        rest \in {NoField} \cup ScoreValues :
       topPings = [m \in Members |-> IF Rank(m) <= FreeMembers THEN free[m] ELSE rest]
  /\ hyperloglog = {m \in Members : topPings[m] # NoField}
  /\ pingInfo = [u \in Callers |->
                   IF topPings[u] = NoField THEN EmptyPingInfo
                   ELSE [blockTime |-> 0, lastPingTime |-> StartEpoch]]
  /\ mu = [p \in Procs |-> 0]
  /\ pc = [w \in Workers |-> "idle"]
  /\ cookie = [w \in Workers |-> NoCookie]
  /\ username = [w \in Workers |-> ""]
  /\ rdInfo = [w \in Workers |-> EmptyPingInfo]
  /\ hgetErr = [w \in Workers |-> FALSE]
  /\ currPingTime = [w \in Workers |-> 0]
  /\ pending = [w \in Workers |-> {}]
  /\ newInfo = [w \in Workers |-> EmptyPingInfo]
  /\ totalPing = [w \in Workers |-> 0]
  /\ zscoreErr = [w \in Workers |-> FALSE]
  /\ sleepUntil = [w \in Workers |-> 0]
  /\ status = [w \in Workers |-> 0]
  /\ topUsers = [status |-> 0, users |-> <<>>]
  /\ count = [status |-> 0, count |-> 0]
  /\ allowedCalls = [u \in Callers |-> IF topPings[u] = NoField THEN 0 ELSE topPings[u]]
  /\ callCount = [u \in Callers |-> IF allowedCalls[u] < MaxCount THEN allowedCalls[u]
                                   ELSE MaxCount]
  /\ lastAllowedAt = [u \in Callers |-> pingInfo[u].lastPingTime]
  /\ prevAllowedAt = [u \in Callers |->
                        IF allowedCalls[u] > 1 THEN StartEpoch - PingRateLimit
                        ELSE NoField]
  /\ scenario = [u \in Callers |-> [on |-> allowedCalls[u] = 0, res |-> <<>>]]

NextTop ==
  \/ \E ok \in BOOLEAN : handleTop(ok)
  \/ \E ok \in BOOLEAN : handleCount(ok)

SpecTop == InitTop /\ [][NextTop]_vars

\* ------------------------------------------------------------------ properties
\* handler w takes the step in which canMakePing decides
Decides(w) == pc[w] = "hgetall" /\ pc'[w] # "hgetall"
\* ... and goes on to setPingInfo, after which it returns true
GoesOn(w) == pc'[w] = "hset"
\* ... and returns false: "Rate limit exceeded"
IsBlocked(w) == pc'[w] = "idle" /\ status'[w] = StatusTooManyRequests
Idle == \A w \in Workers : pc[w] = "idle"
Score(u) == IF topPings[u] = NoField THEN 0 ELSE topPings[u]

\* C1: a call of canMakePing for a user whose hash "ping-"+username does not
\* exist is never blocked, whatever the time, and when it returns true the
\* hash is exactly {blockTime: 0, lastPingTime: the time of the call}.
C1_FirstCallAllowed ==
  [][\A w \in Workers :
       LET u == username[w]
       IN /\ (Decides(w) /\ IsEmptyInfo(pingInfo[u])) => GoesOn(w)
          /\ (pc[w] = "hset" /\ pc'[w] = "zscore" /\ IsEmptyInfo(rdInfo[w]))
               => pingInfo'[u] = [blockTime |-> 0, lastPingTime |-> currPingTime[w]]
    ]_vars

\* a first call, made later than the start, has returned true
C1_Witness ==
  \E w \in Workers :
    /\ pc[w] = "zscore"
    /\ IsEmptyInfo(rdInfo[w])
    /\ currPingTime[w] > StartEpoch
    /\ pingInfo[username[w]].lastPingTime = currPingTime[w]

\* the second canMakePing of a user whose first one returned true at t1,
\* called at a time from t1 to t1 + PingRateLimit
IsSecondCallInWindow(w) ==
  LET u == username[w]
  IN /\ Decides(w)
     /\ callCount[u] = 1
     /\ allowedCalls[u] = 1
     /\ lastAllowedAt[u] <= clock
     /\ clock <= lastAllowedAt[u] + PingRateLimit

ScenarioDone(u) == scenario[u].on /\ Len(scenario[u].res) = Len(ScenarioTimes)

\* C2 as claimed: the second call within PingRateLimit seconds of an allowed
\* first call is blocked; calls at t=0, t=10, t=65 are allowed, blocked,
\* allowed and leave a score of 2.
C2_SecondCallBlocked ==
  /\ [][\A w \in Workers : IsSecondCallInWindow(w) => IsBlocked(w)]_vars
  /\ [](\A u \in Users :
          (ScenarioDone(u) /\ Idle)
            => (scenario[u].res = <<TRUE, FALSE, TRUE>> /\ Score(u) = 2))

\* C2 as amended: the second call within PingRateLimit seconds of an allowed
\* first call is blocked only in the very second of the first call and is let
\* through at any later time; calls at t=0, t=10, t=65 are allowed, allowed,
\* allowed and leave a score of 3.
C2_SecondCallAllowed ==
  /\ [][\A w \in Workers :
         IsSecondCallInWindow(w)
           => IF clock = lastAllowedAt[username[w]] THEN IsBlocked(w) ELSE GoesOn(w)
      ]_vars
  /\ [](\A u \in Users :
          (ScenarioDone(u) /\ Idle)
            => (scenario[u].res = <<TRUE, TRUE, TRUE>> /\ Score(u) = 3))

\* the three calls of the scenario have been made and answered
C2_Witness == Idle /\ ScenarioDone("alice") /\ allowedCalls["alice"] = 3

\* C3: a call made more than PingRateLimit seconds after the user's last
\* allowed call is let through, whatever calls came before.
C3_AllowedAfterWindow ==
  [][\A w \in Workers :
       LET u == username[w]
       IN (Decides(w) /\ lastAllowedAt[u] # NoField
                      /\ clock > lastAllowedAt[u] + PingRateLimit) => GoesOn(w)
    ]_vars

\* such a call, of a user whose stored block time was not 0, is going on
C3_Witness ==
  \E w \in Workers :
    /\ pc[w] = "hset"
    /\ lastAllowedAt[username[w]] # NoField
    /\ currPingTime[w] > lastAllowedAt[username[w]] + PingRateLimit
    /\ rdInfo[w].blockTime > 0

\* C4 as claimed: after an allowed call at time t every call of the user
\* before t + PingRateLimit is blocked (one allowed call per window).
C4_OnePerWindow ==
  [][\A w \in Workers :
       LET u == username[w]
       IN (Decides(w) /\ lastAllowedAt[u] # NoField
                      /\ clock < lastAllowedAt[u] + PingRateLimit) => IsBlocked(w)
    ]_vars

\* C4 as amended: after two allowed calls in a row, the first of them at time
\* t, every call of the user up to t + PingRateLimit is blocked (two allowed
\* calls per window).
C4_TwoPerWindow ==
  [][\A w \in Workers :
       LET u == username[w]
       IN (Decides(w) /\ prevAllowedAt[u] # NoField
                      /\ clock <= prevAllowedAt[u] + PingRateLimit) => IsBlocked(w)
    ]_vars

\* a call has just been blocked, a whole window after the first of the two
\* allowed calls before it
C4_Witness ==
  \E w \in Workers, u \in Users :
    /\ pc[w] = "idle"
    /\ status[w] = StatusTooManyRequests
    /\ prevAllowedAt[u] # NoField
    /\ clock = prevAllowedAt[u] + PingRateLimit
    /\ lastAllowedAt[u] > prevAllowedAt[u]

\* C5: once no request is in flight, the score of every user is the number
\* of its calls that canMakePing allowed: blocked and unauthorized requests add
\* nothing, and the requests of the other users lose nothing.
C5_ScoreCountsAllowed ==
  Idle => \A u \in Users : Score(u) = allowedCalls[u]

\* both users have scored, one of them twice, handled by both processes, and a
\* request was blocked
C5_Witness ==
  /\ Idle
  /\ \E u \in Users, v \in Users : Score(u) = 2 /\ Score(v) >= 1 /\ u # v
  /\ \E w \in Workers, w2 \in Workers :
       status[w] = StatusTooManyRequests /\ status[w2] = StatusOK

\* the sessionID cookie of handler w is missing or empty or names no session
\* of the store (none set, or expired)
BadCookie(w) ==
  \/ cookie[w] \notin Tokens
  \/ sessions[cookie[w]].user = ""
  \/ clock >= sessions[cookie[w]].expireAt

\* C6 as claimed: a /ping whose cookie is missing, empty or names no live
\* session is answered Unauthorized by the session lookup, does not go on to
\* canMakePing, and changes nothing in the store.
C6_UnauthorizedNoEffect ==
  [][\A w \in Workers :
       /\ (pc[w] = "session" /\ pc'[w] # "session" /\ BadCookie(w))
            => /\ pc'[w] = "idle"
               /\ status'[w] = StatusUnauthorized
               /\ UNCHANGED <<store, allowedCalls>>
       /\ (pc[w] \in {"idle", "lock"} /\ pc'[w] # pc[w]) => UNCHANGED store
    ]_vars

\* C7: a session is set to expire RedisExpirationTime seconds after its
\* login and nothing changes it afterwards; a /ping gets past the session
\* lookup, as the user of the session, only before that time.
C7_SessionExpires ==
  [][/\ \A tok \in Tokens :
          IF sessions[tok] = NoSession
          THEN \/ sessions'[tok] = NoSession
               \/ sessions'[tok].expireAt = clock + RedisExpirationTime
          ELSE sessions'[tok] = sessions[tok]
     /\ \A w \in Workers :
          (pc[w] = "session" /\ pc'[w] = "hgetall" /\ cookie[w] \in Tokens)
            => /\ sessions[cookie[w]] # NoSession
               /\ clock < sessions[cookie[w]].expireAt
               /\ username'[w] = sessions[cookie[w]].user
     /\ \A w \in Workers :
          (pc[w] = "session" /\ pc'[w] # "session" /\ cookie[w] \in Tokens
             /\ sessions[cookie[w]] # NoSession
             /\ clock >= sessions[cookie[w]].expireAt)
            => (pc'[w] = "idle" /\ status'[w] = StatusUnauthorized)
    ]_vars

\* a session that a /ping was allowed with has expired, and a request has
\* been answered Unauthorized
C7_Witness ==
  /\ \E tok \in Tokens :
       /\ sessions[tok] # NoSession
       /\ clock >= sessions[tok].expireAt
       /\ allowedCalls[sessions[tok].user] >= 1
  /\ \E w \in Workers : pc[w] = "idle" /\ status[w] = StatusUnauthorized

\* what /top has to answer for the leaderboard lb: at most TopPingCount
\* entries, those of the highest scores, highest first
IsTopOf(r, lb) ==
  LET present == {m \in Members : lb[m] # NoField}
      listed == {r[i].Member : i \in 1..Len(r)}
  IN /\ Len(r) <= TopPingCount
     /\ Len(r) = IF Cardinality(present) < TopPingCount
                 THEN Cardinality(present) ELSE TopPingCount
     /\ Cardinality(listed) = Len(r)
     /\ listed \subseteq present
     /\ \A i \in 1..Len(r) : r[i].Score = lb[r[i].Member]
     /\ \A i \in 1..Len(r), j \in 1..Len(r) : i < j => r[i].Score >= r[j].Score
     /\ \A m \in present \ listed, i \in 1..Len(r) : lb[m] <= r[i].Score

\* C8: the answer of handleTop, when the store answers, is at most
\* TopPingCount entries, sorted from the highest score down, of the highest
\* scoring members (all of them when there are no more than TopPingCount, none
\* and no error for an empty leaderboard), and handleTop changes nothing.
C8_TopIsSortedPrefix ==
  [][topUsers' # topUsers
       => /\ UNCHANGED <<clock, store, mu, pc, locals, status, count, ghost>>
          /\ topUsers'.status = StatusOK
               => /\ IsTopOf(topUsers'.users, topPings)
                  /\ (\A m \in Members : topPings[m] = NoField) => topUsers'.users = <<>>
    ]_vars

\* /top has answered with TopPingCount entries for a leaderboard of more
\* members, of two different scores
C8_Witness ==
  /\ topUsers.status = StatusOK
  /\ Len(topUsers.users) = TopPingCount
  /\ Cardinality({m \in Members : topPings[m] # NoField}) > TopPingCount
  /\ topUsers.users[1].Score > topUsers.users[TopPingCount].Score

\* C9 as claimed: of the canMakePing calls for one user that run at the same
\* time in different processes at most one goes on to write the hash and
\* return true.
C9_AtMostOneWinner ==
  \A w \in Workers, w2 \in Workers :
    (w # w2 /\ pc[w] = "hset" /\ pc[w2] = "hset") => username[w] # username[w2]

\* C10 as claimed: a request whose HGetAll failed is not let through and
\* writes no hash field, and one whose ZScore failed writes no score.
C10_FailedReadFailsRequest ==
  \A w \in Workers :
    /\ hgetErr[w] => pc[w] \notin {"hset", "zscore", "zadd", "pfadd", "sleep"}
    /\ zscoreErr[w] => pc[w] \notin {"zadd", "pfadd", "sleep"}

\* C11 as claimed: a request in which a store write fails (an HSet of
\* setPingInfo, the ZAdd or the PFAdd of increaseCounter) is answered with an
\* error and leaves the store as it was before the request: nothing of the
\* request had been written when the write failed.
C11_FailedWriteLeavesNothing ==
  [][\A w \in Workers :
       (pc[w] \in {"hset", "zadd", "pfadd"} /\ pc'[w] = "idle")
         => /\ status'[w] = StatusInternalServerError
            /\ pc[w] = "hset"
            /\ pending[w] = PingFields
    ]_vars

\* C12: a call that canMakePing blocks changes nothing in the store (the hash
\* of the user, every score and the HyperLogLog stay as they are, so blocked
\* calls never extend the block), and a request gets to increaseCounter only
\* from the last HSet of its own canMakePing, which then returns true.
C12_BlockedChangesNothing ==
  [][\A w \in Workers :
       /\ (Decides(w) /\ IsBlocked(w)) => UNCHANGED store
       /\ (pc[w] # "zscore" /\ pc'[w] = "zscore")
            => /\ pc[w] = "hset"
               /\ pending'[w] = {}
               /\ allowedCalls'[username[w]] = allowedCalls[username[w]] + 1
       /\ pc'[w] \in {"zadd", "pfadd"} => pc[w] \in {"zscore", "zadd", "pfadd"}
    ]_vars

\* a call has been blocked and has left the hash of its user as the allowed
\* call before it wrote it
C12_Witness ==
  \E w \in Workers, u \in Users :
    /\ pc[w] = "idle"
    /\ status[w] = StatusTooManyRequests
    /\ allowedCalls[u] >= 1
    /\ pingInfo[u].lastPingTime = lastAllowedAt[u]
    /\ pingInfo[u].lastPingTime < clock

\* C13: for a user whose hash holds {blockTime: b, lastPingTime: last}, a
\* call at time now is let through exactly when now - last > b and is blocked
\* otherwise; a call let through leaves the hash as exactly
\* {blockTime: max(0, last + PingRateLimit - now), lastPingTime: now}; the
\* stored blockTime is never negative and is 0 whenever now - last is at least
\* PingRateLimit.
C13_DecisionAndRecord ==
  [][\A w \in Workers :
       LET u == username[w]
           b == pingInfo[u].blockTime
           last == pingInfo[u].lastPingTime
           now == currPingTime[w]
           rest == rdInfo[w].lastPingTime + PingRateLimit - now
       IN /\ (Decides(w) /\ b # NoField /\ last # NoField)
               => IF clock - last > b THEN GoesOn(w) ELSE IsBlocked(w)
          /\ (pc[w] = "hset" /\ pc'[w] = "zscore" /\ ~IsEmptyInfo(rdInfo[w]))
               => /\ pingInfo'[u] = [blockTime |-> IF rest > 0 THEN rest ELSE 0,
                                     lastPingTime |-> now]
                  /\ now - rdInfo[w].lastPingTime >= PingRateLimit
                       => pingInfo'[u].blockTime = 0
          /\ \A v \in Callers :
               pingInfo'[v].blockTime # NoField => pingInfo'[v].blockTime >= 0
    ]_vars

\* a call made more than PingRateLimit seconds after the last one has been let
\* through and has stored the block time 0, where the hash held a block time
\* above 0
C13_Witness ==
  \E w \in Workers :
    /\ pc[w] = "zscore"
    /\ rdInfo[w].blockTime > 0
    /\ currPingTime[w] - rdInfo[w].lastPingTime > PingRateLimit
    /\ pingInfo[username[w]] = [blockTime |-> 0, lastPingTime |-> currPingTime[w]]

\* canMakePing of handler w returns true for a user whose hash was there
ReturnsTrueOnRecord(w) ==
  pc[w] = "hset" /\ pc'[w] = "zscore" /\ ~IsEmptyInfo(rdInfo[w])

\* C14 as claimed: whenever a call is let through because the time since the
\* user's last call exceeds the stored block time, the block time written is
\* 0, however little the one exceeds the other.
C14_AllowedStoresZero ==
  [][\A w \in Workers :
       ReturnsTrueOnRecord(w) => pingInfo'[username[w]].blockTime = 0
    ]_vars

\* C14 as amended: a call let through because the time since the user's last
\* call exceeds the stored block time writes the block time 0 only when that
\* time is at least PingRateLimit; when it is less, the block time written is
\* what is left of PingRateLimit, which is above 0.
C14_AllowedStoresRest ==
  [][\A w \in Workers :
       LET elapsed == currPingTime[w] - rdInfo[w].lastPingTime
           written == pingInfo'[username[w]].blockTime
       IN ReturnsTrueOnRecord(w)
            => /\ elapsed > rdInfo[w].blockTime
               /\ IF elapsed >= PingRateLimit
                  THEN written = 0
                  ELSE written = PingRateLimit - elapsed /\ written > 0
    ]_vars

\* a call was let through a little after the stored block time, which was
\* above 0, had passed, and has stored a block time above 0
C14_Witness ==
  \E w \in Workers :
    /\ pc[w] = "zscore"
    /\ rdInfo[w].blockTime > 0
    /\ currPingTime[w] - rdInfo[w].lastPingTime < PingRateLimit
    /\ pingInfo[username[w]].blockTime > 0

\* C15 as claimed: whatever requests overlap and whatever reads of the store
\* fail, no step lowers the score of a member of top_pings or removes a
\* member: every ZAdd writes a score at least as high as the one it replaces.
C15_ScoreNeverDecreases ==
  [][\A m \in Members :
       topPings[m] # NoField
         => (topPings'[m] # NoField /\ topPings'[m] >= topPings[m])
    ]_vars

\* C16 as claimed: the hash that a canMakePing reads holds both fields,
\* written by one and the same allowed call, or none: never one field only,
\* never the fields of two different calls.
C16_RecordReadWhole ==
  \A w \in Workers :
    (pc[w] = "hset" /\ ~hgetErr[w])
      => \/ IsEmptyInfo(rdInfo[w])
         \/ /\ rdInfo[w].blockTime # NoField
            /\ rdInfo[w].lastPingTime # NoField
            /\ rdInfo[w].lastPingTime = lastAllowedAt[username[w]]

\* handler w is between mu.Lock() and the deferred mu.Unlock()
InHandler(w) == pc[w] \notin {"idle", "lock"}

\* C17: of the handlers of one server process at most one at a time is
\* between mu.Lock() and mu.Unlock(), and it is the one the mutex is held by:
\* the session lookup, canMakePing and increaseCounter of a request never run
\* while another request of the process is at any of them.
C17_OneInHandler ==
  \A w \in Workers :
    InHandler(w)
      => /\ mu[WorkerProc[w]] = w
         /\ \A w2 \in Workers \ {w} :
              WorkerProc[w2] = WorkerProc[w] => ~InHandler(w2)

\* a request waits in mu.Lock() while another request of its process, for the
\* same user, is writing the hash
C17_Witness ==
  \E w \in Workers, w2 \in Workers :
    /\ w # w2
    /\ WorkerProc[w] = WorkerProc[w2]
    /\ pc[w] = "hset"
    /\ pc[w2] = "lock"
    /\ cookie[w2] = cookie[w]
    /\ allowedCalls[username[w]] >= 1

\* C18: with the HyperLogLog taken as the exact set of the members added and
\* no store command failing, once no request is in flight that set is the set
\* of the users canMakePing has let through at least once, which is the set
\* of the members of top_pings; a PFAdd of a member already added changes
\* nothing; and the count that /count answers never decreases.
C18_SketchIsAllowedCallers ==
  /\ [](Idle => /\ hyperloglog = {u \in Callers : allowedCalls[u] >= 1}
                /\ hyperloglog = {m \in Members : topPings[m] # NoField})
  /\ [][/\ hyperloglog \subseteq hyperloglog'
        /\ \A w \in Workers :
             (pc[w] = "pfadd" /\ pc'[w] = "sleep" /\ username[w] \in hyperloglog)
               => hyperloglog' = hyperloglog
        /\ count' # count
             => /\ count'.count = Cardinality(hyperloglog)
                /\ count'.count >= count.count
     ]_vars

\* both users have been let through, one of them twice, and /count has
\* answered 2
C18_Witness ==
  /\ Idle
  /\ hyperloglog = Users
  /\ \E u \in Users : allowedCalls[u] >= 2
  /\ count = [status |-> StatusOK, count |-> 2]

\* C19: with one process handling one request at a time and no failing
\* store command, of three calls in a row of one user that canMakePing lets
\* through, at the times a1 < a2 < a3, the third is more than PingRateLimit
\* seconds after the first (so no PingRateLimit seconds hold more than two of
\* them), and no two of them are at the same second.
C19_ThirdAllowedAfterWindow ==
  \A u \in Callers :
    /\ prevAllowedAt[u] # NoField => prevAllowedAt[u] < lastAllowedAt[u]
    /\ \A w \in Workers :
         (pc[w] = "hset" /\ username[w] = u)
           => /\ lastAllowedAt[u] # NoField => lastAllowedAt[u] < currPingTime[w]
              /\ prevAllowedAt[u] # NoField
                   => currPingTime[w] - prevAllowedAt[u] > PingRateLimit

\* a third call is being let through, as soon as the steps of the clock
\* allow after the window of the first one, with the second one in that window
C19_Witness ==
  \E w \in Workers :
    LET u == username[w]
    IN /\ pc[w] = "hset"
       /\ prevAllowedAt[u] # NoField
       /\ lastAllowedAt[u] < prevAllowedAt[u] + PingRateLimit
       /\ currPingTime[w] <= prevAllowedAt[u] + PingRateLimit + 5

\* C20: a /ping that has taken the mutex gives it back when it answers, on
\* every way out (Unauthorized, "Rate limit exceeded", "Ping succeeded", the
\* panic of a failing store write), and with handlers that go on running and
\* a mutex that does not starve its waiters every /ping that waits in
\* mu.Lock() gets the mutex and is answered.
C20_LockReleasedAndAcquired ==
  /\ [][\A w \in Workers :
          (pc[w] # "idle" /\ pc'[w] = "idle")
            => /\ mu[WorkerProc[w]] = w
               /\ mu'[WorkerProc[w]] = 0
               /\ status'[w] \in {StatusUnauthorized, StatusTooManyRequests,
                                  StatusOK, StatusInternalServerError}
     ]_vars
  /\ \A w \in Workers : (pc[w] = "lock") ~> (mu[WorkerProc[w]] = w)
  /\ \A w \in Workers : (mu[WorkerProc[w]] = w) ~> (pc[w] = "idle")

\* a request has got the mutex that another request of the process held
\* until it panicked on a failing store write
C20_Witness ==
  \E w \in Workers, w2 \in Workers :
    /\ w # w2
    /\ WorkerProc[w] = WorkerProc[w2]
    /\ mu[WorkerProc[w]] = w
    /\ pc[w] = "hgetall"
    /\ pc[w2] = "idle"
    /\ status[w2] = StatusInternalServerError

====
